---- MODULE Spec2Model ----
(***************************************************************************)
(* Model of the provider-abstraction / chat-completion core of the admin   *)
(* portal backend: ContextStrategyService, ProviderFactory, the four       *)
(* provider adapters and ChatCompletionService (validation, context        *)
(* filtering, bounded retry).                                              *)
(*                                                                         *)
(* JavaScript strings that the code only compares are TLA+ strings.        *)
(* Strings that the code trims (apiKey, model) are sequences of one-letter *)
(* strings so that trim() is computed; NoString is `undefined`.            *)
(***************************************************************************)
EXTENDS Integers, Sequences, FiniteSets, TLC

VARIABLES
    \* ---- ChatCompletionService.sendCompletion, one request ----
    request,          \* the ChatCompletionRequest
    pc,               \* "start" | "calling" | "delaying" | "done" | "failed"
    filteredMessages, \* result of applyStrategy (sendCompletion local)
    adapter,          \* adapter built by the factory, or NoAdapter
    retriesLeft,      \* sendWithRetry parameter of the current frame
    attempts,         \* number of adapter.sendChatCompletion invocations
    httpCalls,        \* number of upstream HTTP calls issued
    delays,           \* number of delay(RETRY_DELAY_MS) waits
    waitedMs,         \* total milliseconds spent in delay()
    strategyApplied,  \* number of applyStrategy calls
    adaptersCreated,  \* number of adapters constructed
    sent,             \* per attempt: what was sent upstream
    history,          \* per attempt: the upstream outcome
    result,           \* returned ChatCompletionResponse, or NoResult
    error,            \* thrown error, or NoError
    \* ---- ContextStrategyService.applyStrategy as a pure function ----
    ctxPc,            \* "input" | "applied"
    ctxMessages,      \* argument messages
    ctxStrategy,      \* argument strategy
    ctxCount,         \* options.recentCount, NoCount when not given
    ctxOut,           \* returned messages
    \* ---- ProviderFactory.createAdapter / adapter.validateApiKey ----
    pvPc,             \* "input" | "created" | "rejected" | "validating" | "returned" | "thrown"
    pvProvider,       \* provider string given to the factory
    pvApiKey,         \* api key given to the factory
    pvAdapter,        \* adapter built by the factory, or NoAdapter
    pvHttpCalls,      \* upstream calls made by validateApiKey
    pvUpstream,       \* upstream outcome of the validation call, or NoOutcome
    pvResult,         \* ProviderValidationResponse returned, or NoResult
    pvError,          \* error thrown, or NoError
    \* ---- one record per further component; [pc |-> "unused"] when idle ----
    nz,               \* adapter.normalizeResponse as a pure function
    adp,              \* other adapter methods as pure functions: request body, handleError
    svc,              \* ProviderValidationService / ModelFetchingService call
    http,             \* POST /chat/completions: request body and HTTP answer
    conc,             \* concurrent sendCompletion requests, by request id
    adm               \* admin account document and adminLogin requests

chatVars == <<request, pc, filteredMessages, adapter, retriesLeft, attempts,
              httpCalls, delays, waitedMs, strategyApplied, adaptersCreated,
              sent, history, result, error>>
ctxVars  == <<ctxPc, ctxMessages, ctxStrategy, ctxCount, ctxOut>>
pvVars   == <<pvPc, pvProvider, pvApiKey, pvAdapter, pvHttpCalls, pvUpstream,
              pvResult, pvError>>
vars     == <<chatVars, ctxVars, pvVars, nz, adp, svc, http, conc, adm>>

\* what the actions of one component leave unchanged
nonChatVars == <<ctxVars, pvVars, nz, adp, svc, http, conc, adm>>
nonCtxVars  == <<chatVars, pvVars, nz, adp, svc, http, conc, adm>>
nonPvVars   == <<chatVars, ctxVars, nz, adp, svc, http, conc, adm>>

(***************************************************************************)
(* Bounds of the model                                                     *)
(***************************************************************************)
MaxLen      == 3    \* exhaustive message sequences up to this length
MaxLongLen  == 12   \* patterned long conversations up to this length
MaxCount    == 3    \* explicit recentCount values 0..MaxCount
MaxChatLen  == 2    \* message sequences of a sendCompletion request
MaxTokens   == 2    \* usage counts reported by an upstream: 0..MaxTokens

(***************************************************************************)
(* Small helpers                                                           *)
(***************************************************************************)
Min(a, b) == IF a < b THEN a ELSE b
Max(a, b) == IF a > b THEN a ELSE b

RECURSIVE SeqsUpTo(_, _)
SeqsUpTo(S, n) ==
    IF n = 0 THEN { <<>> }
    ELSE LET shorter == SeqsUpTo(S, n - 1)
         IN  shorter \cup { Append(s, x) : s \in { t \in shorter : Len(t) = n - 1 }, x \in S }

NoString  == << "<undefined>" >>
NoAdapter == [provider |-> "<none>", apiKey |-> NoString]
NoResult  == [kind |-> "none"]
NoError   == [kind |-> "none"]
NoOutcome == [kind |-> "none"]
NoCount   == -1

\* Array.prototype.slice(start) for an integer start
slice(s, start) ==
    LET len == Len(s)
        k   == IF start < 0 THEN Max(len + start, 0) ELSE Min(start, len)
    IN  SubSeq(s, k + 1, len)

\* String.prototype.trim() on a sequence of characters
RECURSIVE trimStart(_)
trimStart(s) == IF s # <<>> /\ Head(s) = " " THEN trimStart(Tail(s)) ELSE s
RECURSIVE trimEnd(_)
trimEnd(s) == IF s # <<>> /\ s[Len(s)] = " " THEN trimEnd(SubSeq(s, 1, Len(s) - 1)) ELSE s
trim(s) == trimEnd(trimStart(s))

\* String.prototype.toLowerCase() on the provider strings of the model
toLowerCase(p) ==
    CASE p = "OpenAI"    -> "openai"
      [] p = "GOOGLE"    -> "google"
      [] p = "Anthropic" -> "anthropic"
      [] OTHER           -> p

(***************************************************************************)
(* ContextStrategyService                                                  *)
(***************************************************************************)
DefaultRecentCount == 10

\* Array.prototype.find: index of the first message with the role, 0 if none
findRole(messages, role) ==
    IF \E i \in 1..Len(messages) : messages[i].role = role
    THEN CHOOSE i \in 1..Len(messages) :
            /\ messages[i].role = role
            /\ \A j \in 1..(i - 1) : messages[j].role # role
    ELSE 0

\* [...messages].reverse().find: index of the last message with the role
findLastRole(messages, role) ==
    IF \E i \in 1..Len(messages) : messages[i].role = role
    THEN CHOOSE i \in 1..Len(messages) :
            /\ messages[i].role = role
            /\ \A j \in (i + 1)..Len(messages) : messages[j].role # role
    ELSE 0

\* applyMinimal that takes the first user message instead of the last
applyMinimal_firstUser(messages) ==
    LET s == findRole(messages, "system")
        u == findRole(messages, "user")
    IN  IF u = 0 THEN messages
        ELSE IF s # 0 THEN << messages[s], messages[u] >>
        ELSE << messages[u] >>

applyMinimal(messages) ==
    LET s == findRole(messages, "system")
        u == findLastRole(messages, "user")
    IN  IF u = 0 THEN messages
        ELSE IF s # 0 THEN << messages[s], messages[u] >>
        ELSE << messages[u] >>

IsNotSystem(m) == m.role # "system"

\* applyRecent that takes the last N of all messages, system ones included
applyRecent_countsSystem(messages, count) ==
    LET s == findRole(messages, "system")
        recentMessages == SelectSeq(slice(messages, 0 - count), IsNotSystem)
    IN  IF s # 0 THEN << messages[s] >> \o recentMessages
        ELSE recentMessages

applyRecent(messages, count) ==
    LET s == findRole(messages, "system")
        conversationMessages == SelectSeq(messages, IsNotSystem)
        recentMessages == slice(conversationMessages, 0 - count)
    IN  IF s # 0 THEN << messages[s] >> \o recentMessages
        ELSE recentMessages

\* applyFull that keeps one system message and the default recent window
applyFull_asRecent(messages) == applyRecent(messages, DefaultRecentCount)

applyFull(messages) == messages

\* strategy "" stands for an omitted argument (default parameter 'minimal');
\* recentCount NoCount or 0 is falsy and gives the default count
applyStrategy(messages, strategy, recentCount) ==
    CASE strategy = "" \/ strategy = "minimal" -> applyMinimal(messages)
      [] strategy = "recent" ->
            applyRecent(messages,
                        IF recentCount = NoCount \/ recentCount = 0
                        THEN DefaultRecentCount ELSE recentCount)
      [] strategy = "full" -> applyFull(messages)
      [] OTHER -> applyMinimal(messages)

ValidRoles == { "system", "user", "assistant" }

\* a role or content of "" is falsy (also stands for a missing field)
validateMessages(messages) ==
    /\ Len(messages) # 0
    /\ \A i \in 1..Len(messages) :
          /\ messages[i].role # ""
          /\ messages[i].content # ""
          /\ messages[i].role \in ValidRoles

(***************************************************************************)
(* providers.config.ts and ProviderFactory                                 *)
(***************************************************************************)
SUPPORTED_PROVIDERS == << "openai", "anthropic", "google", "perplexity" >>
MAX_RETRIES    == 3
RETRY_DELAY_MS == 1000

getSupportedProviders == SUPPORTED_PROVIDERS

isProviderSupported(provider) ==
    \E i \in 1..Len(SUPPORTED_PROVIDERS) : SUPPORTED_PROVIDERS[i] = provider

NoStatus == 0   \* `statusCode` of an error object that has none

\* a thrown value: a plain Error (message only) or a ProviderError
PlainError(message) ==
    [kind |-> "Error", provider |-> "", code |-> "", message |-> message,
     statusCode |-> NoStatus]

Thrown(e)   == [kind |-> "throw", value |-> e]
Returned(v) == [kind |-> "return", value |-> v]

\* ProviderFactory.createAdapter: switch (provider.toLowerCase())
createAdapter(provider, apiKey) ==
    LET p == toLowerCase(provider)
    IN  CASE p = "openai"     -> Returned([provider |-> "openai", apiKey |-> apiKey])
          [] p = "anthropic"  -> Returned([provider |-> "anthropic", apiKey |-> apiKey])
          [] p = "google"     -> Returned([provider |-> "google", apiKey |-> apiKey])
          [] p = "perplexity" -> Returned([provider |-> "perplexity", apiKey |-> apiKey])
          [] OTHER            -> Thrown(PlainError("Unsupported provider"))

(***************************************************************************)
(* Upstream outcomes as seen by axios                                      *)
(***************************************************************************)
Absent == -1    \* a usage field the upstream omits
NoBody == [model |-> "", choices |-> <<>>, models |-> <<>>,
           usage |-> [prompt |-> Absent, completion |-> Absent, total |-> Absent]]

\* 2xx response carrying a body
HttpOk(body) ==
    [kind |-> "ok", status |-> 200, body |-> body,
     errCode |-> "", errMessage |-> "", message |-> ""]
\* non-2xx response; errCode/errMessage are data.error.code/message ("" if absent)
HttpFail(status, errCode, errMessage) ==
    [kind |-> "status", status |-> status, body |-> NoBody,
     errCode |-> errCode, errMessage |-> errMessage,
     message |-> "Request failed with status code"]
\* no response at all (timeout, connection reset)
NetworkFail(message) ==
    [kind |-> "network", status |-> NoStatus, body |-> NoBody,
     errCode |-> "", errMessage |-> "", message |-> message]
\* exception raised inside the adapter's try block (no `response` field)
TypeError ==
    [kind |-> "network", status |-> NoStatus, body |-> NoBody,
     errCode |-> "", errMessage |-> "",
     message |-> "Cannot read properties of undefined"]

\* handleError that loses the upstream status
handleError_always500(providerName, raw) ==
    [kind       |-> "ProviderError",
     provider   |-> providerName,
     code       |-> IF raw.errCode # "" THEN raw.errCode ELSE "PROVIDER_ERROR",
     message    |-> IF raw.errMessage # "" THEN raw.errMessage
                    ELSE IF raw.message # "" THEN raw.message
                    ELSE "Unknown error",
     statusCode |-> 500]

\* BaseProviderAdapter.handleError: the ProviderError it throws
handleError(providerName, raw) ==
    [kind       |-> "ProviderError",
     provider   |-> providerName,
     code       |-> IF raw.errCode # "" THEN raw.errCode ELSE "PROVIDER_ERROR",
     message    |-> IF raw.errMessage # "" THEN raw.errMessage
                    ELSE IF raw.message # "" THEN raw.message
                    ELSE "Unknown error",
     statusCode |-> IF raw.status # NoStatus THEN raw.status ELSE 500]

OrZero(n) == IF n = Absent THEN 0 ELSE n

\* normalizeResponse of the four adapters. body.choices is the upstream's list
\* of choices (OpenAI, Perplexity), content blocks (Anthropic) or candidates
\* (Google); reading a field of a missing first element raises a TypeError.
Normalized(providerName, model, role, content, p, c, t, finish) ==
    [kind     |-> "ChatCompletionResponse",
     provider |-> providerName,
     model    |-> model,
     message  |-> [role |-> role, content |-> content],
     usage    |-> [promptTokens |-> p, completionTokens |-> c, totalTokens |-> t],
     finishReason |-> finish]

OpenAI_normalizeResponse(body) ==
    IF Len(body.choices) = 0 THEN Thrown(TypeError)
    ELSE LET choice == body.choices[1]
         IN  Returned(Normalized("openai", body.model, choice.role, choice.content,
                                 OrZero(body.usage.prompt), OrZero(body.usage.completion),
                                 OrZero(body.usage.total), choice.finish))

Anthropic_normalizeResponse(body) ==
    IF Len(body.choices) = 0 THEN Thrown(TypeError)
    ELSE LET content == body.choices[1].content
         IN  Returned(Normalized("anthropic", body.model, "assistant", content,
                                 OrZero(body.usage.prompt), OrZero(body.usage.completion),
                                 OrZero(body.usage.prompt) + OrZero(body.usage.completion),
                                 body.choices[1].finish))

Google_normalizeResponse(body) ==
    IF Len(body.choices) = 0 THEN Thrown(TypeError)
    ELSE LET candidate == body.choices[1]
         IN  Returned(Normalized("google", "gemini", "assistant", candidate.content,
                                 OrZero(body.usage.prompt), OrZero(body.usage.completion),
                                 OrZero(body.usage.total), candidate.finish))

Perplexity_normalizeResponse(body) ==
    IF Len(body.choices) = 0 THEN Thrown(TypeError)
    ELSE LET choice == body.choices[1]
         IN  Returned(Normalized("perplexity", body.model, choice.role, choice.content,
                                 OrZero(body.usage.prompt), OrZero(body.usage.completion),
                                 OrZero(body.usage.total), choice.finish))

\* dispatch of the abstract method on the adapter's class
normalizeResponse(providerName, body) ==
    CASE providerName = "openai"     -> OpenAI_normalizeResponse(body)
      [] providerName = "anthropic"  -> Anthropic_normalizeResponse(body)
      [] providerName = "google"     -> Google_normalizeResponse(body)
      [] providerName = "perplexity" -> Perplexity_normalizeResponse(body)

\* sendChatCompletion with normalizeResponse after the try block: its
\* TypeError leaves the adapter as it is
sendChatCompletion_normalizeOutsideTry(ad, outcome) ==
    IF outcome.kind = "ok"
    THEN LET n == normalizeResponse(ad.provider, outcome.body)
         IN  IF n.kind = "return" THEN n
             ELSE Thrown(PlainError(n.value.message))
    ELSE Thrown(handleError(ad.provider, outcome))

\* <Provider>Adapter.sendChatCompletion once the single HTTP call has settled
sendChatCompletion(ad, outcome) ==
    IF outcome.kind = "ok"
    THEN LET n == normalizeResponse(ad.provider, outcome.body)
         IN  IF n.kind = "return" THEN n
             ELSE Thrown(handleError(ad.provider, n.value))
    ELSE Thrown(handleError(ad.provider, outcome))

\* The body each adapter posts upstream.  Temperatures are in tenths; a field
\* the body does not carry is Absent / NoSystem.
DEFAULT_TEMPERATURE  == 7      \* options?.temperature ?? 0.7
DEFAULT_MAX_TOKENS   == 4096   \* options?.maxTokens || 4096 (Anthropic)
NoSystem == "<absent>"

RequestBody(model, messages, system, temperature, maxTokens) ==
    [model |-> model, messages |-> messages, system |-> system,
     temperature |-> IF temperature = Absent THEN DEFAULT_TEMPERATURE ELSE temperature,
     maxTokens |-> maxTokens]

OpenAI_requestBody(model, messages, temperature, maxTokens) ==
    RequestBody(model, messages, NoSystem, temperature, maxTokens)

\* Anthropic body that leaves the system message in the array as well
Anthropic_requestBody_keepsSystem(model, messages, temperature, maxTokens) ==
    LET systemMessage == findRole(messages, "system")
    IN  RequestBody(model, messages,
                    IF systemMessage = 0 THEN NoSystem ELSE messages[systemMessage].content,
                    temperature,
                    IF maxTokens = Absent \/ maxTokens = 0 THEN DEFAULT_MAX_TOKENS
                    ELSE maxTokens)

Anthropic_requestBody(model, messages, temperature, maxTokens) ==
    LET systemMessage == findRole(messages, "system")
        conversationMessages == SelectSeq(messages, IsNotSystem)
    IN  RequestBody(model, conversationMessages,
                    IF systemMessage = 0 THEN NoSystem ELSE messages[systemMessage].content,
                    temperature,
                    IF maxTokens = Absent \/ maxTokens = 0 THEN DEFAULT_MAX_TOKENS
                    ELSE maxTokens)

GeminiContent(message) ==
    [role |-> IF message.role = "assistant" THEN "model" ELSE "user",
     content |-> message.content]

\* convertToGeminiFormat that maps before it filters
convertToGeminiFormat_mapFirst(messages) ==
    [i \in 1..Len(messages) |-> GeminiContent(messages[i])]

convertToGeminiFormat(messages) ==
    LET kept == SelectSeq(messages, IsNotSystem)
    IN  [i \in 1..Len(kept) |-> GeminiContent(kept[i])]

Google_requestBody(model, messages, temperature, maxTokens) ==
    RequestBody(model, convertToGeminiFormat(messages), NoSystem, temperature, maxTokens)

Perplexity_requestBody(model, messages, temperature, maxTokens) ==
    RequestBody(model, messages, NoSystem, temperature, maxTokens)

\* dispatch on the adapter's class
requestBody(providerName, model, messages, temperature, maxTokens) ==
    CASE providerName = "openai"     -> OpenAI_requestBody(model, messages, temperature, maxTokens)
      [] providerName = "anthropic"  -> Anthropic_requestBody(model, messages, temperature, maxTokens)
      [] providerName = "google"     -> Google_requestBody(model, messages, temperature, maxTokens)
      [] providerName = "perplexity" -> Perplexity_requestBody(model, messages, temperature, maxTokens)

\* validateApiKey of the four adapters once the single HTTP call has settled
ValidationResponse(providerName, valid, message, models) ==
    [kind |-> "ProviderValidationResponse", valid |-> valid,
     provider |-> providerName, message |-> message, models |-> models]

IsGemini(id) == id \in { "gemini", "gemini-1.5-pro", "gemini-embed" }

\* shapes of the listing body: the list field is absent (NoList), the body
\* itself is null (NullData), or an entry has no name (NoName)
NoList   == << "<undefined>" >>
NullData == << "<null>" >>
NoName   == "<noname>"
HasNoName(ids) == \E i \in 1..Len(ids) : ids[i] = NoName

OpenAI_validateApiKey(outcome) ==
    IF outcome.kind = "ok"
    THEN IF outcome.body.models = NullData
         THEN Thrown(handleError("openai", TypeError))
         ELSE Returned(ValidationResponse("openai", TRUE, "API key is valid",
                          IF outcome.body.models = NoList THEN 0
                          ELSE Len(outcome.body.models)))
    ELSE IF outcome.status = 401
    THEN Returned(ValidationResponse("openai", FALSE, "Invalid API key", Absent))
    ELSE Thrown(handleError("openai", outcome))

\* validateApiKey that reports every failed call as an invalid key
Anthropic_validateApiKey_catchAll(outcome) ==
    IF outcome.kind = "ok"
    THEN Returned(ValidationResponse("anthropic", TRUE, "API key is valid", 5))
    ELSE Returned(ValidationResponse("anthropic", FALSE, "Invalid API key", Absent))

Anthropic_validateApiKey(outcome) ==
    IF outcome.kind = "ok"
    THEN Returned(ValidationResponse("anthropic", TRUE, "API key is valid", 5))
    ELSE IF outcome.status = 401
    THEN Returned(ValidationResponse("anthropic", FALSE, "Invalid API key", Absent))
    ELSE Thrown(handleError("anthropic", outcome))

Google_validateApiKey(outcome) ==
    IF outcome.kind = "ok"
    THEN IF outcome.body.models = NullData \/ HasNoName(outcome.body.models)
         THEN Thrown(handleError("google", TypeError))
         ELSE Returned(ValidationResponse("google", TRUE, "API key is valid",
                          IF outcome.body.models = NoList THEN 0
                          ELSE Len(SelectSeq(outcome.body.models, IsGemini))))
    ELSE IF outcome.status = 400 \/ outcome.status = 401
    THEN Returned(ValidationResponse("google", FALSE, "Invalid API key", Absent))
    ELSE Thrown(handleError("google", outcome))

Perplexity_validateApiKey(outcome) ==
    IF outcome.kind = "ok"
    THEN Returned(ValidationResponse("perplexity", TRUE, "API key is valid", 4))
    ELSE IF outcome.status = 401 \/ outcome.status = 403
    THEN Returned(ValidationResponse("perplexity", FALSE, "Invalid API key", Absent))
    ELSE Thrown(handleError("perplexity", outcome))

\* dispatch of the abstract method on the adapter's class
validateApiKey(ad, outcome) ==
    CASE ad.provider = "openai"     -> OpenAI_validateApiKey(outcome)
      [] ad.provider = "anthropic"  -> Anthropic_validateApiKey(outcome)
      [] ad.provider = "google"     -> Google_validateApiKey(outcome)
      [] ad.provider = "perplexity" -> Perplexity_validateApiKey(outcome)

(***************************************************************************)
(* ChatCompletionService                                                   *)
(***************************************************************************)
Blank(str) == str = NoString \/ Len(trim(str)) = 0

\* validateRequest without the model check
validateRequest_noModelCheck(req) ==
    IF ~isProviderSupported(req.provider)
    THEN PlainError("Unsupported provider; supported: openai, anthropic, google, perplexity")
    ELSE IF Blank(req.apiKey) THEN PlainError("API key is required")
    ELSE IF ~validateMessages(req.messages) THEN PlainError("Invalid messages format")
    ELSE NoError

\* validateRequest: the Error it throws, or NoError
validateRequest(req) ==
    IF ~isProviderSupported(req.provider)
    THEN PlainError("Unsupported provider; supported: openai, anthropic, google, perplexity")
    ELSE IF Blank(req.apiKey) THEN PlainError("API key is required")
    ELSE IF Blank(req.model) THEN PlainError("Model is required")
    ELSE IF ~validateMessages(req.messages) THEN PlainError("Invalid messages format")
    ELSE NoError

\* variants of sendWithRetry with a plausible slip, used to test the properties
sendWithRetry_offByOne(err, retries) ==
    IF err.statusCode = 401 \/ err.statusCode = 403 THEN "throw"
    ELSE IF err.statusCode = 400 THEN "throw"
    ELSE IF retries >= 0 THEN "retry"
    ELSE "throw"
sendWithRetry_only5xx(err, retries) ==
    IF err.statusCode < 500 THEN "throw"
    ELSE IF retries > 0 THEN "retry"
    ELSE "throw"
sendWithRetry_retry400(err, retries) ==
    IF err.statusCode = 401 \/ err.statusCode = 403 THEN "throw"
    ELSE IF retries > 0 THEN "retry"
    ELSE "throw"

\* the catch block of sendWithRetry: rethrow the error or wait and retry
sendWithRetry(err, retries) ==
    IF err.statusCode = 401 \/ err.statusCode = 403 THEN "throw"
    ELSE IF err.statusCode = 400 THEN "throw"
    ELSE IF retries > 0 THEN "retry"
    ELSE "throw"

\* ---- inputs of the model ----
Msg(role, content) == [role |-> role, content |-> content]

ChatProviders  == { "openai", "anthropic", "google", "perplexity", "OpenAI", "mistral", "" }
ChatApiKeys    == { NoString, <<>>, << " " >>, << "s", "k" >> }
ChatModels     == { NoString, << " ", " " >>, << "m", "1" >> }
ChatStrategies == { "", "minimal", "recent", "full" }
ChatMsgPool    == { Msg("system", "s"), Msg("user", "a"), Msg("assistant", "b"),
                    Msg("tool", "t"), Msg("user", "") }
ChatRequests ==
    [provider : ChatProviders, apiKey : ChatApiKeys, model : ChatModels,
     messages : SeqsUpTo(ChatMsgPool, MaxChatLen), contextStrategy : ChatStrategies,
     temperature : { Absent }, maxTokens : { Absent }]

Usage(p, c, t) == [prompt |-> p, completion |-> c, total |-> t]
Choice(role, content, finish) == [role |-> role, content |-> content, finish |-> finish]
Body(model, choices, usage) ==
    [model |-> model, choices |-> choices, models |-> <<>>, usage |-> usage]

GoodBodies ==
    { Body("m1", << Choice("assistant", "hello", "stop") >>, Usage(3, 2, 5)),
      Body("m1-0613", << Choice("assistant", "bye", "length") >>, Usage(Absent, Absent, Absent)) }
EmptyBody == Body("m1", <<>>, Usage(3, 0, 3))

RetryableOutcomes ==
    { HttpOk(EmptyBody),
      HttpFail(429, "rate_limit_exceeded", "Rate limit reached"),
      HttpFail(503, "", ""),
      NetworkFail("timeout exceeded") }
FatalOutcomes ==
    { HttpFail(400, "invalid_request_error", "Bad request"),
      HttpFail(401, "invalid_api_key", "Incorrect API key"),
      HttpFail(403, "", "") }
ChatOutcomes == { HttpOk(b) : b \in GoodBodies } \cup RetryableOutcomes \cup FatalOutcomes

ChatIdle ==
    /\ filteredMessages = <<>>
    /\ adapter = NoAdapter
    /\ retriesLeft = MAX_RETRIES
    /\ attempts = 0
    /\ httpCalls = 0
    /\ delays = 0
    /\ waitedMs = 0
    /\ strategyApplied = 0
    /\ adaptersCreated = 0
    /\ sent = <<>>
    /\ history = <<>>
    /\ result = NoResult
    /\ error = NoError

NoRequest == [provider |-> "", apiKey |-> NoString, model |-> NoString,
              messages |-> <<>>, contextStrategy |-> "",
              temperature |-> Absent, maxTokens |-> Absent]

ChatUnused == request = NoRequest /\ pc = "unused" /\ ChatIdle
CtxUnused  == /\ ctxPc = "unused"
              /\ ctxMessages = <<>>
              /\ ctxStrategy = ""
              /\ ctxCount = NoCount
              /\ ctxOut = <<>>
Unused     == [pc |-> "unused"]
NzUnused   == nz = Unused
AdpUnused  == adp = Unused
SvcUnused  == svc = Unused
HttpUnused == http = Unused
ConcUnused == conc = Unused
AdmUnused  == adm = Unused
PvUnused   == /\ pvPc = "unused"
              /\ pvProvider = ""
              /\ pvApiKey = NoString
              /\ pvAdapter = NoAdapter
              /\ pvHttpCalls = 0
              /\ pvUpstream = NoOutcome
              /\ pvResult = NoResult
              /\ pvError = NoError

\* adapter.sendChatCompletion called without the filtered messages
Invocation_unfiltered(ad, req, msgs) ==
    [provider |-> ad.provider, apiKey |-> ad.apiKey, model |-> req.model,
     messages |-> req.messages, temperature |-> req.temperature,
     maxTokens |-> req.maxTokens,
     body |-> requestBody(ad.provider, req.model, req.messages, req.temperature,
                          req.maxTokens)]

\* one call adapter.sendChatCompletion(model, filteredMessages, {temperature,
\* maxTokens}) of the closure, with the body the adapter posts
Invocation(ad, req, msgs) ==
    [provider |-> ad.provider, apiKey |-> ad.apiKey, model |-> req.model,
     messages |-> msgs, temperature |-> req.temperature,
     maxTokens |-> req.maxTokens,
     body |-> requestBody(ad.provider, req.model, msgs, req.temperature,
                          req.maxTokens)]

\* sendCompletion up to the first upstream call (validateRequest,
\* applyStrategy, createAdapter, sendWithRetry -> fn -> axios.post)
SendCompletion ==
    /\ pc = "start"
    /\ LET v == validateRequest(request)
           f == applyStrategy(request.messages,
                              IF request.contextStrategy = "" THEN "minimal"
                              ELSE request.contextStrategy,
                              NoCount)
           c == createAdapter(request.provider, request.apiKey)
       IN  IF v # NoError
           THEN /\ pc' = "failed"
                /\ error' = v
                /\ UNCHANGED <<filteredMessages, adapter, retriesLeft, attempts,
                               httpCalls, strategyApplied, adaptersCreated, sent>>
           ELSE IF c.kind = "throw"
           THEN /\ pc' = "failed"
                /\ error' = c.value
                /\ filteredMessages' = f
                /\ strategyApplied' = strategyApplied + 1
                /\ UNCHANGED <<adapter, retriesLeft, attempts, httpCalls,
                               adaptersCreated, sent>>
           ELSE /\ pc' = "calling"
                /\ filteredMessages' = f
                /\ strategyApplied' = strategyApplied + 1
                /\ adapter' = c.value
                /\ adaptersCreated' = adaptersCreated + 1
                /\ retriesLeft' = MAX_RETRIES
                /\ attempts' = attempts + 1
                /\ httpCalls' = httpCalls + 1
                /\ sent' = Append(sent, Invocation(c.value, request, f))
                /\ error' = error
    /\ UNCHANGED <<request, delays, waitedMs, history, result>>
    /\ UNCHANGED nonChatVars

\* the pending upstream call settles: the adapter returns or throws, and the
\* try/catch of sendWithRetry returns, rethrows or starts the delay
UpstreamResponds ==
    /\ pc = "calling"
    /\ \E o \in ChatOutcomes :
          LET r == sendChatCompletion(adapter, o)
          IN  /\ history' = Append(history, [outcome |-> o, settled |-> r])
              /\ IF r.kind = "return"
                 THEN /\ pc' = "done"
                      /\ result' = r.value
                      /\ UNCHANGED <<error, delays>>
                 ELSE IF sendWithRetry(r.value, retriesLeft) = "throw"
                 THEN /\ pc' = "failed"
                      /\ error' = r.value
                      /\ UNCHANGED <<result, delays>>
                 ELSE /\ pc' = "delaying"
                      /\ delays' = delays + 1
                      /\ UNCHANGED <<result, error>>
    /\ UNCHANGED <<request, filteredMessages, adapter, retriesLeft, attempts,
                   httpCalls, waitedMs, strategyApplied, adaptersCreated, sent>>
    /\ UNCHANGED nonChatVars

\* a delay that grows with every retry
retryDelay_backoff(retries) == RETRY_DELAY_MS * (MAX_RETRIES - retries + 1)

\* the argument of this.delay(...) in the frame whose counter is `retries`
retryDelay(retries) == RETRY_DELAY_MS

\* delay(RETRY_DELAY_MS) resolves: sendWithRetry(fn, retriesLeft - 1) calls fn
DelayElapsed ==
    /\ pc = "delaying"
    /\ pc' = "calling"
    /\ waitedMs' = waitedMs + retryDelay(retriesLeft)
    /\ retriesLeft' = retriesLeft - 1
    /\ attempts' = attempts + 1
    /\ httpCalls' = httpCalls + 1
    /\ sent' = Append(sent, Invocation(adapter, request, filteredMessages))
    /\ UNCHANGED <<request, filteredMessages, adapter, delays, strategyApplied,
                   adaptersCreated, history, result, error>>
    /\ UNCHANGED nonChatVars

Init ==
    /\ request \in ChatRequests
    /\ pc = "start"
    /\ ChatIdle
    /\ CtxUnused
    /\ PvUnused
    /\ NzUnused /\ AdpUnused /\ SvcUnused /\ HttpUnused /\ ConcUnused /\ AdmUnused

Next == SendCompletion \/ UpstreamResponds \/ DelayElapsed

Spec == Init /\ [][Next]_vars

(***************************************************************************)
(* Properties of ChatCompletionService (specification Spec)                *)
(***************************************************************************)
NonRetryableStatus == { 400, 401, 403 }

\* attempt h ended with the adapter throwing an error the policy retries
FailedRetryable(h) ==
    h.settled.kind = "throw" /\ h.settled.value.statusCode \notin NonRetryableStatus
\* attempt h ended with the adapter throwing a 400 / 401 / 403 error
FailedFatal(h) ==
    h.settled.kind = "throw" /\ h.settled.value.statusCode \in NonRetryableStatus
\* attempt h got a 2xx response whose body has a first choice
Succeeded(h) == h.outcome.kind = "ok" /\ Len(h.outcome.body.choices) > 0

\* C1: a sendCompletion request makes at most 4 upstream chat-completion calls
\* (1 try + at most 3 retries); every adapter invocation performs exactly one
\* HTTP call, so the two counts agree and no call is made without an invocation.
C1_AtMostFourCalls ==
    /\ attempts <= 4
    /\ httpCalls <= 4
    /\ httpCalls = attempts
    /\ Len(sent) = attempts
    /\ Len(history) <= attempts
    /\ Len(history) >= attempts - 1

C1_Witness == pc = "failed" /\ attempts = 4 /\ httpCalls = 4 /\ Len(history) = 4

\* C2: if the first k-1 attempts (1 <= k <= 4) fail with a status outside
\* {400, 401, 403} the k-th attempt is made, and if it succeeds the request
\* returns attempt k's normalized result after exactly k attempts.
C2_RetryThenSuccess ==
    \A k \in 1..4 :
       (/\ Len(history) >= k - 1
        /\ \A i \in 1..(k - 1) : FailedRetryable(history[i]))
       => /\ (k >= 2 /\ Len(history) = k - 1)
                => /\ pc \in { "delaying", "calling" }
                   /\ attempts = IF pc = "calling" THEN k ELSE k - 1
          /\ (Len(history) >= k /\ Succeeded(history[k]))
                => /\ pc = "done"
                   /\ attempts = k
                   /\ Len(history) = k
                   /\ error = NoError
                   /\ result = normalizeResponse(request.provider,
                                                 history[k].outcome.body).value

C2_Witness ==
    /\ pc = "done"
    /\ Len(history) = 4
    /\ \A i \in 1..3 : history[i].outcome.status = 503
    /\ history[4].outcome.status = 200
    /\ result.message.content = "hello"

\* C3: if all 4 attempts fail with retryable errors the request fails with
\* exactly the error of the 4th attempt: the provider of the request, and the
\* code, message and status derived from the 4th upstream outcome.
C3_LastErrorSurfaced ==
    (/\ Len(history) = 4
     /\ \A i \in 1..4 : FailedRetryable(history[i]))
    => /\ pc = "failed"
       /\ result = NoResult
       /\ error = history[4].settled.value
       /\ error.provider = request.provider
       /\ history[4].outcome.kind = "status"
             => /\ error.statusCode = history[4].outcome.status
                /\ history[4].outcome.errCode # "" => error.code = history[4].outcome.errCode
                /\ history[4].outcome.errMessage # ""
                      => error.message = history[4].outcome.errMessage

C3_Witness ==
    /\ pc = "failed"
    /\ Len(history) = 4
    /\ history[1].outcome.status = 429
    /\ \A i \in 2..4 : history[i].outcome.status = 503
    /\ error.statusCode = 503
    /\ error.code = "PROVIDER_ERROR"

\* C4: an attempt that fails with statusCode 400, 401 or 403 is the last one:
\* the error is rethrown at once, with no delay and no further adapter call.
C4_NoRetryOnFatal ==
    \A i \in 1..Len(history) :
       FailedFatal(history[i])
       => /\ pc = "failed"
          /\ i = Len(history)
          /\ attempts = i
          /\ httpCalls = i
          /\ delays = i - 1
          /\ error = history[i].settled.value

C4_Witness ==
    /\ pc = "failed"
    /\ Len(history) = 1
    /\ history[1].outcome.status = 401
    /\ attempts = 1
    /\ delays = 0

\* the four ways a request is invalid, stated on the request itself
AllSpaces(str) == \A i \in 1..Len(str) : str[i] = " "
InvalidRequest(req) ==
    \/ req.provider \notin { "openai", "anthropic", "google", "perplexity" }
    \/ req.apiKey = NoString \/ AllSpaces(req.apiKey)
    \/ req.model = NoString \/ AllSpaces(req.model)
    \/ req.messages = <<>>
    \/ \E i \in 1..Len(req.messages) :
          \/ req.messages[i].role \notin { "system", "user", "assistant" }
          \/ req.messages[i].content = ""

\* C5: a request that fails validation ends with a local error before the
\* context strategy is applied and before an adapter is built: no upstream
\* call, no attempt, no retry delay.
C5_InvalidRequestIsLocal ==
    (InvalidRequest(request) /\ pc # "start")
    => /\ pc = "failed"
       /\ error.kind = "Error"
       /\ result = NoResult
       /\ strategyApplied = 0
       /\ adaptersCreated = 0
       /\ adapter = NoAdapter
       /\ attempts = 0
       /\ httpCalls = 0
       /\ delays = 0

C5_Witness ==
    /\ pc = "failed"
    /\ request.provider = "openai"
    /\ request.apiKey = << "s", "k" >>
    /\ request.model = << " ", " " >>
    /\ validateMessages(request.messages)
    /\ error.message = "Model is required"
    /\ httpCalls = 0

(***************************************************************************)
(* ContextStrategyService.applyStrategy on its own (specification SpecCtx) *)
(***************************************************************************)
CtxMsgPool == { Msg(r, c) : r \in ValidRoles, c \in { "a", "b" } }

\* the conversation of the documentation's examples
ExampleConversation ==
    << Msg("system", "s"), Msg("user", "a"), Msg("assistant", "b"), Msg("user", "c") >>

\* a long chronological conversation: a system prompt, then user and
\* assistant turns in alternation
LongConversation(n) ==
    [ i \in 1..n |->
        IF i = 1 THEN Msg("system", "s")
        ELSE IF i % 2 = 0 THEN Msg("user", IF i % 4 = 0 THEN "a" ELSE "b")
        ELSE Msg("assistant", IF i % 3 = 0 THEN "a" ELSE "c") ]

CtxInputs ==
    SeqsUpTo(CtxMsgPool, MaxLen)
    \cup { ExampleConversation }
    \cup { LongConversation(n) : n \in 1..MaxLongLen }
    \cup { Tail(LongConversation(n)) : n \in 1..MaxLongLen }

CtxStrategies == { "", "minimal", "recent", "full", "summary" }
CtxCounts     == { NoCount } \cup 0..MaxCount

CtxInit ==
    /\ ctxPc = "input"
    /\ ctxMessages \in CtxInputs
    /\ ctxStrategy \in CtxStrategies
    /\ ctxCount \in CtxCounts
    /\ ctxOut = <<>>
    /\ ChatUnused
    /\ PvUnused
    /\ NzUnused /\ AdpUnused /\ SvcUnused /\ HttpUnused /\ ConcUnused /\ AdmUnused

ApplyStrategy ==
    /\ ctxPc = "input"
    /\ ctxPc' = "applied"
    /\ ctxOut' = applyStrategy(ctxMessages, ctxStrategy, ctxCount)
    /\ UNCHANGED <<ctxMessages, ctxStrategy, ctxCount>>
    /\ UNCHANGED nonCtxVars

CtxNext == ApplyStrategy

SpecCtx == CtxInit /\ [][CtxNext]_vars

HasRole(msgs, r) == \E i \in 1..Len(msgs) : msgs[i].role = r

\* out is: the first system message of msgs (if any), then the messages of rest
SystemThen(msgs, rest, out) ==
    IF HasRole(msgs, "system")
    THEN /\ Len(out) = Len(rest) + 1
         /\ \E s \in 1..Len(msgs) :
               /\ msgs[s].role = "system"
               /\ \A j \in 1..(s - 1) : msgs[j].role # "system"
               /\ out[1] = msgs[s]
         /\ \A i \in 1..Len(rest) : out[i + 1] = rest[i]
    ELSE out = rest

\* out is: the first system message (if any), then the last user message
SystemAndLastUser(msgs, out) ==
    \E u \in 1..Len(msgs) :
       /\ msgs[u].role = "user"
       /\ \A j \in (u + 1)..Len(msgs) : msgs[j].role # "user"
       /\ SystemThen(msgs, << msgs[u] >>, out)

\* C6 as stated: 'minimal' always returns at most 2 messages (system + last
\* user) and returns the input unchanged if there is no user-role message.
C6_MinimalAtMostTwo ==
    (ctxPc = "applied" /\ ctxStrategy = "minimal")
    => /\ Len(ctxOut) <= 2
       /\ HasRole(ctxMessages, "user") => SystemAndLastUser(ctxMessages, ctxOut)
       /\ ~HasRole(ctxMessages, "user") => ctxOut = ctxMessages

\* C6 (amended): when a user-role message exists, 'minimal' returns at most 2
\* messages, the first system message (if any) followed by the last user
\* message; when none exists it returns the input unchanged, whatever its length.
C6_MinimalAmended ==
    (ctxPc = "applied" /\ ctxStrategy = "minimal")
    => /\ HasRole(ctxMessages, "user")
             => /\ Len(ctxOut) <= 2
                /\ SystemAndLastUser(ctxMessages, ctxOut)
       /\ ~HasRole(ctxMessages, "user") => ctxOut = ctxMessages

C6_Witness ==
    /\ ctxPc = "applied"
    /\ ctxStrategy = "minimal"
    /\ ctxMessages = ExampleConversation
    /\ ctxOut = << Msg("system", "s"), Msg("user", "c") >>

\* the last n elements of s (all of s when it is shorter)
LastN(s, n) == SubSeq(s, Len(s) - Min(n, Len(s)) + 1, Len(s))

\* C7: 'recent' with count N >= 1 (N = 10 when no count is given) returns the
\* first system message (if any) followed by exactly the last
\* min(N, number of non-system messages) non-system messages, in order.
C7_RecentLastN ==
    (ctxPc = "applied" /\ ctxStrategy = "recent" /\ (ctxCount = NoCount \/ ctxCount >= 1))
    => LET N      == IF ctxCount = NoCount THEN 10 ELSE ctxCount
           nonSys == SelectSeq(ctxMessages, LAMBDA m : m.role \in { "user", "assistant" })
       IN  /\ SystemThen(ctxMessages, LastN(nonSys, N), ctxOut)
           /\ Len(ctxOut) = Min(N, Len(nonSys)) + (IF HasRole(ctxMessages, "system") THEN 1 ELSE 0)

C7_Witness ==
    /\ ctxPc = "applied"
    /\ ctxStrategy = "recent"
    /\ ctxCount = NoCount
    /\ ctxMessages = LongConversation(12)
    /\ Len(ctxOut) = 11
    /\ ctxOut[1] = Msg("system", "s")
    /\ ctxOut[2] = ctxMessages[3]

\* C8: 'full' is the identity: the output equals the input, element for
\* element and in the same order, also with several system messages or no
\* user message.
C8_FullIsIdentity ==
    (ctxPc = "applied" /\ ctxStrategy = "full")
    => /\ Len(ctxOut) = Len(ctxMessages)
       /\ \A i \in 1..Len(ctxMessages) : ctxOut[i] = ctxMessages[i]

C8_Witness ==
    /\ ctxPc = "applied"
    /\ ctxStrategy = "full"
    /\ Len(ctxMessages) = 3
    /\ \A i \in 1..3 : ctxMessages[i].role = "system"
    /\ ctxOut = ctxMessages

(***************************************************************************)
(* ProviderFactory.createAdapter followed by adapter.validateApiKey        *)
(* (specification SpecProvider)                                            *)
(***************************************************************************)
PvProviders == { "openai", "anthropic", "google", "perplexity",
                 "OpenAI", "GOOGLE", "Anthropic", "mistral", "" }
PvApiKeys   == { << "s", "k" >>, << "b", "a", "d" >>, <<>> }

ListBody(ids) == [model |-> "", choices |-> <<>>, models |-> ids,
                  usage |-> Usage(Absent, Absent, Absent)]

ValidationOutcomes ==
    { HttpOk(ListBody(<< "gpt", "gemini", "embedding" >>)),
      HttpOk(NoBody),
      HttpOk(ListBody(NoList)),
      HttpOk(ListBody(NullData)),
      HttpOk(ListBody(<< "gemini", NoName >>)),
      HttpFail(400, "", "API key not valid"),
      HttpFail(401, "invalid_api_key", "Incorrect API key"),
      HttpFail(403, "", "Forbidden"),
      HttpFail(429, "rate_limit_exceeded", ""),
      HttpFail(500, "", ""),
      HttpFail(503, "", ""),
      NetworkFail("timeout exceeded") }

PvInit ==
    /\ pvPc = "input"
    /\ pvProvider \in PvProviders
    /\ pvApiKey \in PvApiKeys
    /\ pvAdapter = NoAdapter
    /\ pvHttpCalls = 0
    /\ pvUpstream = NoOutcome
    /\ pvResult = NoResult
    /\ pvError = NoError
    /\ ChatUnused
    /\ CtxUnused
    /\ NzUnused /\ AdpUnused /\ SvcUnused /\ HttpUnused /\ ConcUnused /\ AdmUnused

\* ProviderFactory.createAdapter(pvProvider, pvApiKey)
CreateAdapter ==
    /\ pvPc = "input"
    /\ LET c == createAdapter(pvProvider, pvApiKey)
       IN  IF c.kind = "return"
           THEN pvPc' = "created" /\ pvAdapter' = c.value /\ pvError' = pvError
           ELSE pvPc' = "rejected" /\ pvError' = c.value /\ pvAdapter' = pvAdapter
    /\ UNCHANGED <<pvProvider, pvApiKey, pvHttpCalls, pvUpstream, pvResult>>
    /\ UNCHANGED nonPvVars

\* adapter.validateApiKey() issues its upstream call
ValidateApiKey ==
    /\ pvPc = "created"
    /\ pvPc' = "validating"
    /\ pvHttpCalls' = pvHttpCalls + 1
    /\ UNCHANGED <<pvProvider, pvApiKey, pvAdapter, pvUpstream, pvResult, pvError>>
    /\ UNCHANGED nonPvVars

\* the validation call settles and validateApiKey returns or throws
ValidationSettles ==
    /\ pvPc = "validating"
    /\ \E o \in ValidationOutcomes :
          LET r == validateApiKey(pvAdapter, o)
          IN  /\ pvUpstream' = o
              /\ IF r.kind = "return"
                 THEN pvPc' = "returned" /\ pvResult' = r.value /\ pvError' = pvError
                 ELSE pvPc' = "thrown" /\ pvError' = r.value /\ pvResult' = pvResult
    /\ UNCHANGED <<pvProvider, pvApiKey, pvAdapter, pvHttpCalls>>
    /\ UNCHANGED nonPvVars

PvNext == CreateAdapter \/ ValidateApiKey \/ ValidationSettles

SpecProvider == PvInit /\ [][PvNext]_vars

\* C9: createAdapter fails with an 'Unsupported provider' error and builds no
\* adapter for every provider string that is not a member of
\* getSupportedProviders() (case variants included), and returns that
\* provider's adapter for every member.
C9_FactoryRejectsNonMembers ==
    pvPc # "input"
    => IF pvProvider \in { "openai", "anthropic", "google", "perplexity" }
       THEN pvAdapter = [provider |-> pvProvider, apiKey |-> pvApiKey]
       ELSE /\ pvPc = "rejected"
            /\ pvError.message = "Unsupported provider"
            /\ pvAdapter = NoAdapter

\* C10: for each of the four adapters an upstream 401 or 403 to the
\* key-validation call makes validateApiKey return
\* {valid: false, message: 'Invalid API key'} instead of throwing.
C10_AuthRejectionIsResult ==
    (/\ pvPc \in { "returned", "thrown" }
     /\ pvProvider \in { "openai", "anthropic", "google", "perplexity" }
     /\ pvAdapter.provider = pvProvider
     /\ pvUpstream.status \in { 401, 403 })
    => /\ pvPc = "returned"
       /\ pvResult.valid = FALSE
       /\ pvResult.message = "Invalid API key"
       /\ pvError = NoError

\* the key-validation call failed for a reason other than an authentication
\* rejection (401/403, and 400 for Google): no response, or another status
FailedNotAuth(providerName, o) ==
    \/ o.kind = "network"
    \/ /\ o.kind = "status"
       /\ o.status \notin { 401, 403 }
       /\ ~(providerName = "google" /\ o.status = 400)

\* a 2xx answer of a listing endpoint whose body is not a list of named models
UnexpectedShape(providerName, o) ==
    /\ providerName \in { "openai", "google" }
    /\ o.kind = "ok"
    /\ (o.body.models \in { NoList, NullData } \/ HasNoName(o.body.models))

NzCounts  == { Absent } \cup 0..MaxTokens
NzChoices == { <<>>,
               << Choice("assistant", "hi", "stop") >>,
               << Choice("", "hi", "stop") >> }      \* role omitted
NzBodies  == { Body("m1", ch, Usage(p, c, t)) :
                  ch \in NzChoices, p \in NzCounts, c \in NzCounts, t \in NzCounts }
NzProviders == { SUPPORTED_PROVIDERS[i] : i \in 1..Len(SUPPORTED_PROVIDERS) }

NzInit ==
    /\ nz \in [pc : { "input" }, provider : NzProviders, body : NzBodies,
               out : { NoResult }]
    /\ ChatUnused /\ CtxUnused /\ PvUnused /\ AdpUnused
    /\ SvcUnused /\ HttpUnused /\ ConcUnused /\ AdmUnused

NormalizeResponse ==
    /\ nz.pc = "input"
    /\ nz' = [nz EXCEPT !.pc = "applied",
                        !.out = normalizeResponse(nz.provider, nz.body)]
    /\ UNCHANGED <<chatVars, ctxVars, pvVars, adp, svc, http, conc, adm>>

NzNext == NormalizeResponse

SpecNormalize == NzInit /\ [][NzNext]_vars

\* C12: the usage counts of a normalized response are numbers, 0 for every
\* count the upstream omits, and totalTokens = promptTokens + completionTokens
\* whenever the upstream reports no total.
C12_UsageCounts ==
    (nz.pc = "applied" /\ nz.out.kind = "return")
    => LET u   == nz.out.value.usage
           raw == nz.body.usage
       IN  /\ u.promptTokens \in Nat
           /\ u.completionTokens \in Nat
           /\ u.totalTokens \in Nat
           /\ raw.prompt = Absent => u.promptTokens = 0
           /\ raw.completion = Absent => u.completionTokens = 0
           /\ raw.total = Absent => u.totalTokens = u.promptTokens + u.completionTokens

(***************************************************************************)
(* adapter.fetchModels                                                     *)
(***************************************************************************)
ModelInfo(id, name, contextWindow) ==
    [id |-> id, name |-> name, contextWindow |-> contextWindow]

ModelFetchResponse(providerName, models) ==
    [kind |-> "ModelFetchResponse", provider |-> providerName,
     models |-> models, count |-> Len(models)]

\* model ids stand for the substrings the adapters look for
IsGptOrO1(id) == id \in { "gpt", "gpt-4o", "o1-mini" }
SupportsGenerateContent(id) == id # "gemini-embed"

OpenAI_getContextWindow(modelId) ==
    CASE modelId = "gpt-4o"  -> 128000
      [] modelId = "o1-mini" -> 128000
      [] OTHER               -> 8192

Google_getContextWindow(modelId) ==
    CASE modelId = "gemini-1.5-pro" -> 2000000
      [] OTHER                      -> 32768

OpenAI_ModelInfo(id) == ModelInfo(id, id, OpenAI_getContextWindow(id))
Google_ModelInfo(id) == ModelInfo(id, id, Google_getContextWindow(id))

OpenAI_fetchModels(outcome) ==
    IF outcome.kind = "ok"
    THEN IF outcome.body.models \in { NullData, NoList } \/ HasNoName(outcome.body.models)
         THEN Thrown(handleError("openai", TypeError))
         ELSE LET gptModels == SelectSeq(outcome.body.models, IsGptOrO1)
              IN  Returned(ModelFetchResponse("openai",
                     [i \in 1..Len(gptModels) |-> OpenAI_ModelInfo(gptModels[i])]))
    ELSE Thrown(handleError("openai", outcome))

IsGeminiGenerate(id) == IsGemini(id) /\ SupportsGenerateContent(id)

Google_fetchModels(outcome) ==
    IF outcome.kind = "ok"
    THEN IF outcome.body.models \in { NullData, NoList } \/ HasNoName(outcome.body.models)
         THEN Thrown(handleError("google", TypeError))
         ELSE LET geminiModels == SelectSeq(outcome.body.models, IsGeminiGenerate)
              IN  Returned(ModelFetchResponse("google",
                     [i \in 1..Len(geminiModels) |-> Google_ModelInfo(geminiModels[i])]))
    ELSE Thrown(handleError("google", outcome))

\* description and pricing of the static entries are left out
getAvailableModels ==
    << ModelInfo("claude-3-5-sonnet-20241022", "Claude 3.5 Sonnet", 200000),
       ModelInfo("claude-3-5-haiku-20241022", "Claude 3.5 Haiku", 200000),
       ModelInfo("claude-3-opus-20240229", "Claude 3 Opus", 200000),
       ModelInfo("claude-3-sonnet-20240229", "Claude 3 Sonnet", 200000),
       ModelInfo("claude-3-haiku-20240307", "Claude 3 Haiku", 200000) >>

PERPLEXITY_MODELS ==
    << ModelInfo("sonar", "Sonar", 127072),
       ModelInfo("sonar-pro", "Sonar Pro", 127072),
       ModelInfo("sonar-deep-research", "Sonar Deep Research", 127072),
       ModelInfo("sonar-reasoning-pro", "Sonar Reasoning Pro", 127072) >>

Anthropic_fetchModels  == Returned(ModelFetchResponse("anthropic", getAvailableModels))
Perplexity_fetchModels == Returned(ModelFetchResponse("perplexity", PERPLEXITY_MODELS))

\* fetchModels that asks the upstream for every provider
fetchModelsCallsUpstream_always(providerName) == TRUE

\* whether adapter.fetchModels() issues an upstream call
fetchModelsCallsUpstream(providerName) == providerName \in { "openai", "google" }

\* dispatch of the abstract method on the adapter's class; `outcome` is read
\* only by the adapters that call the upstream
fetchModels(ad, outcome) ==
    CASE ad.provider = "openai"     -> OpenAI_fetchModels(outcome)
      [] ad.provider = "anthropic"  -> Anthropic_fetchModels
      [] ad.provider = "google"     -> Google_fetchModels(outcome)
      [] ad.provider = "perplexity" -> Perplexity_fetchModels

(***************************************************************************)
(* ProviderValidationService.validateProvider and                          *)
(* ModelFetchingService.fetchModels (specification SpecService)            *)
(***************************************************************************)
MaxCalls == 2   \* service requests made one after the other

Proceed == [kind |-> "proceed"]

\* validateProvider up to its try block
validateProvider_check(provider, apiKey) ==
    IF ~isProviderSupported(provider)
    THEN Returned(ValidationResponse(provider, FALSE, "Unsupported provider", Absent))
    ELSE IF Blank(apiKey)
    THEN Returned(ValidationResponse(provider, FALSE, "API key is required", Absent))
    ELSE Proceed

\* validateProvider that lets upstream failures (5xx, network) escape
validateProvider_catch_rethrow5xx(provider, r) ==
    IF r.kind = "return"
    THEN r
    ELSE IF r.value.statusCode # NoStatus /\ r.value.statusCode >= 500
    THEN r
    ELSE Returned(ValidationResponse(provider, FALSE,
                     IF r.value.message # "" THEN r.value.message
                     ELSE "Validation failed", Absent))

\* the try/catch of validateProvider around adapter.validateApiKey()
validateProvider_catch(provider, r) ==
    IF r.kind = "return"
    THEN r
    ELSE Returned(ValidationResponse(provider, FALSE,
                     IF r.value.message # "" THEN r.value.message
                     ELSE "Validation failed", Absent))

\* fetchModels that hands a blank key to the adapter
ModelFetching_check_noKeyCheck(provider, apiKey) ==
    IF ~isProviderSupported(provider)
    THEN Thrown(PlainError("Unsupported provider"))
    ELSE Proceed

\* ModelFetchingService.fetchModels up to its try block
ModelFetching_check(provider, apiKey) ==
    IF ~isProviderSupported(provider)
    THEN Thrown(PlainError("Unsupported provider"))
    ELSE IF Blank(apiKey)
    THEN Thrown(PlainError("API key is required"))
    ELSE Proceed

\* the try/catch of ModelFetchingService.fetchModels around adapter.fetchModels()
ModelFetching_catch(r) ==
    IF r.kind = "return"
    THEN r
    ELSE Thrown(PlainError(IF r.value.message # "" THEN r.value.message
                           ELSE "Failed to fetch models"))

SvcOps       == { "validateProvider", "fetchModels" }
SvcProviders == { "openai", "anthropic", "google", "perplexity", "mistral" }
SvcApiKeys   == { << "s", "k" >>, << "o", "k" >>, << " " >>, <<>> }
SvcOutcomes  ==
    { HttpOk(ListBody(<< "gpt-4o", "gemini-1.5-pro", "gemini-embed", "embedding" >>)),
      HttpOk(ListBody(NullData)),
      HttpFail(401, "invalid_api_key", "Incorrect API key"),
      HttpFail(403, "", "Forbidden"),
      HttpFail(503, "", ""),
      NetworkFail("timeout exceeded") }

SvcIdle ==
    [pc |-> "idle", op |-> "", provider |-> "", apiKey |-> NoString,
     adapter |-> NoAdapter, adapterCalls |-> 0, httpCalls |-> 0,
     upstream |-> NoOutcome, adapterOut |-> NoResult, out |-> NoResult,
     log |-> <<>>]

SvcInit ==
    /\ svc = SvcIdle
    /\ ChatUnused /\ CtxUnused /\ PvUnused
    /\ NzUnused /\ AdpUnused /\ HttpUnused /\ ConcUnused /\ AdmUnused

LogEntry(s) ==
    [op |-> s.op, provider |-> s.provider, apiKey |-> s.apiKey,
     adapterCalls |-> s.adapterCalls, httpCalls |-> s.httpCalls, out |-> s.out]

\* the request finishes: its outcome is what the caller sees
Settled(s, out) ==
    LET d == [s EXCEPT !.pc = "done", !.out = out]
    IN  [d EXCEPT !.log = Append(s.log, LogEntry(d))]

\* a service request begins and runs until it returns, throws or awaits the
\* adapter's upstream call
ServiceCall ==
    /\ svc.pc \in { "idle", "done" }
    /\ Len(svc.log) < MaxCalls
    /\ \E op \in SvcOps, provider \in SvcProviders, apiKey \in SvcApiKeys :
          LET s0 == [SvcIdle EXCEPT !.op = op, !.provider = provider,
                                    !.apiKey = apiKey, !.log = svc.log]
              chk == IF op = "validateProvider"
                     THEN validateProvider_check(provider, apiKey)
                     ELSE ModelFetching_check(provider, apiKey)
              c   == createAdapter(provider, apiKey)
          IN  IF chk # Proceed
              THEN svc' = Settled(s0, chk)
              ELSE IF c.kind = "throw"
              THEN svc' = Settled(s0, IF op = "validateProvider"
                                      THEN validateProvider_catch(provider, c)
                                      ELSE ModelFetching_catch(c))
              ELSE LET s1 == [s0 EXCEPT !.adapter = c.value, !.adapterCalls = 1]
                   IN  IF op = "fetchModels" /\ ~fetchModelsCallsUpstream(c.value.provider)
                       THEN LET r == fetchModels(c.value, NoOutcome)
                            IN  svc' = Settled([s1 EXCEPT !.adapterOut = r],
                                               ModelFetching_catch(r))
                       ELSE svc' = [s1 EXCEPT !.pc = "awaiting", !.httpCalls = 1]
    /\ UNCHANGED <<chatVars, ctxVars, pvVars, nz, adp, http, conc, adm>>

\* the adapter's upstream call settles; the adapter and then the service
\* return or throw
ServiceUpstreamSettles ==
    /\ svc.pc = "awaiting"
    /\ \E o \in SvcOutcomes :
          LET r == IF svc.op = "validateProvider"
                   THEN validateApiKey(svc.adapter, o)
                   ELSE fetchModels(svc.adapter, o)
              s == [svc EXCEPT !.upstream = o, !.adapterOut = r]
          IN  svc' = Settled(s, IF svc.op = "validateProvider"
                                THEN validateProvider_catch(svc.provider, r)
                                ELSE ModelFetching_catch(r))
    /\ UNCHANGED <<chatVars, ctxVars, pvVars, nz, adp, http, conc, adm>>

SvcNext == ServiceCall \/ ServiceUpstreamSettles

SpecService == SvcInit /\ [][SvcNext]_vars

(***************************************************************************)
(* Properties of the two services (specification SpecService)              *)
(***************************************************************************)
StaticProviders == { "anthropic", "perplexity" }

StaticFetch(e) ==
    e.op = "fetchModels" /\ e.provider \in StaticProviders /\ ~Blank(e.apiKey)

\* C13: for Anthropic and Perplexity fetchModels makes no upstream call and
\* returns the same static table on every call of any sequence and for any
\* API key: 5 entries for Anthropic, 4 for Perplexity, count = table length.
C13_StaticTableIsIdempotent ==
    \A i \in 1..Len(svc.log) :
       LET e == svc.log[i]
       IN  StaticFetch(e)
           => /\ e.httpCalls = 0
              /\ e.out.kind = "return"
              /\ e.out.value.provider = e.provider
              /\ e.out.value.count = Len(e.out.value.models)
              /\ e.out.value.count = IF e.provider = "anthropic" THEN 5 ELSE 4
              /\ \A j \in 1..Len(svc.log) :
                    (StaticFetch(svc.log[j]) /\ svc.log[j].provider = e.provider)
                    => svc.log[j].out = e.out

C13_Witness ==
    /\ Len(svc.log) = 2
    /\ StaticFetch(svc.log[1]) /\ StaticFetch(svc.log[2])
    /\ svc.log[1].provider = "perplexity" /\ svc.log[2].provider = "perplexity"
    /\ svc.log[1].apiKey # svc.log[2].apiKey
    /\ svc.log[2].out.value.count = 4
    /\ svc.log[2].httpCalls = 0

\* C18: when the upstream listing call fails, ModelFetchingService.fetchModels
\* fails with a ProviderError that carries the provider, the status code and
\* the upstream code and message.
C18_FetchFailureKeepsContext ==
    (/\ svc.pc = "done"
     /\ svc.op = "fetchModels"
     /\ svc.upstream.kind \in { "status", "network" })
    => /\ svc.out.kind = "throw"
       /\ svc.out.value = handleError(svc.adapter.provider, svc.upstream)

\* C19: each service invokes the adapter operation at most once per request
\* whatever its outcome: a failed upstream call ends the request (no retry,
\* no delay), and there is no adapter call when the provider is unsupported
\* or the key is blank.
C19_AtMostOneAdapterCall ==
    /\ svc.adapterCalls <= 1
    /\ svc.httpCalls <= svc.adapterCalls
    /\ svc.upstream # NoOutcome => svc.pc = "done"
    /\ \A i \in 1..Len(svc.log) :
          LET e == svc.log[i]
          IN  /\ e.adapterCalls <= 1
              /\ e.httpCalls <= e.adapterCalls
              /\ (~isProviderSupported(e.provider) \/ Blank(e.apiKey))
                 => e.adapterCalls = 0 /\ e.httpCalls = 0

C19_Witness ==
    /\ svc.pc = "done"
    /\ svc.op = "fetchModels"
    /\ svc.upstream.kind = "status" /\ svc.upstream.status = 503
    /\ svc.adapterCalls = 1 /\ svc.httpCalls = 1
    /\ Len(svc.log) = 2
    /\ svc.log[1].op = "validateProvider" /\ Blank(svc.log[1].apiKey)
    /\ svc.log[1].adapterCalls = 0

(***************************************************************************)
(* Termination of sendCompletion (specification SpecLive): the handler is  *)
(* run, every pending upstream call settles and every delay timer fires.   *)
(***************************************************************************)
SpecLive ==
    /\ Spec
    /\ WF_vars(SendCompletion)
    /\ WF_vars(UpstreamResponds)
    /\ WF_vars(DelayElapsed)

Terminated == pc \in { "done", "failed" }

\* C14: when every upstream call eventually settles, every sendCompletion
\* request eventually terminates with exactly one outcome, a result or a
\* thrown error and never both, after at most 4 attempts and 3 retry delays.
C14_TerminatesWithOneOutcome ==
    /\ <>Terminated
    /\ [](pc = "done" => (result # NoResult /\ error = NoError))
    /\ [](pc = "failed" => (error # NoError /\ result = NoResult))
    /\ [](~Terminated => (result = NoResult /\ error = NoError))
    /\ [](attempts <= MAX_RETRIES + 1 /\ delays <= MAX_RETRIES)
    /\ [][Terminated => UNCHANGED <<pc, result, error, attempts, delays>>]_vars

C14_Witness ==
    /\ pc = "done"
    /\ attempts = 4
    /\ delays = 3
    /\ result # NoResult
    /\ error = NoError
    /\ Len(sent) = 4

(***************************************************************************)
(* POST /api/chat/completions: chat controller, ChatCompletionService and  *)
(* errorHandler (specification SpecHttp).  The route's express-validator   *)
(* chains are not followed by `validate`, so they reject nothing.          *)
(***************************************************************************)
AppError(message, statusCode, code) ==
    [kind |-> "AppError", provider |-> "", code |-> code, message |-> message,
     statusCode |-> statusCode]

NoData     == [kind |-> "none"]
NoResponse == [status |-> NoStatus]

\* res.status(status).json(body); fields a body does not have are "absent" / Absent
Json(status, success, data, code, message, statusCode) ==
    [status |-> status, success |-> success, data |-> data,
     error |-> [code |-> code, message |-> message, statusCode |-> statusCode]]

errorHandler(err) ==
    IF err.kind = "AppError"
    THEN Json(err.statusCode, "absent", NoData, err.code, err.message, Absent)
    ELSE Json(500, "absent", NoData, "SERVER_ERROR", "An unexpected error occurred", Absent)

\* the required-field checks of the controller
sendChatCompletion_check(body) ==
    IF body.provider = ""
    THEN AppError("Provider is required", 400, "MISSING_PROVIDER")
    ELSE IF body.apiKey = NoString \/ body.apiKey = <<>>
    THEN AppError("API key is required", 400, "MISSING_API_KEY")
    ELSE IF body.model = NoString \/ body.model = <<>>
    THEN AppError("Model is required", 400, "MISSING_MODEL")
    ELSE IF Len(body.messages) = 0
    THEN AppError("Messages array is required and must not be empty", 400,
                  "MISSING_MESSAGES")
    ELSE NoError

HttpBodies == ChatRequests

HttpInit ==
    /\ http \in [pc : { "received" }, body : HttpBodies, response : { NoResponse }]
    /\ ChatUnused /\ CtxUnused /\ PvUnused
    /\ NzUnused /\ AdpUnused /\ SvcUnused /\ ConcUnused /\ AdmUnused

\* the controller runs until it has answered (next(error) -> errorHandler) or
\* awaits ChatCompletionService.sendCompletion
ChatController ==
    /\ http.pc = "received"
    /\ LET e == sendChatCompletion_check(http.body)
       IN  IF e # NoError
           THEN /\ http' = [http EXCEPT !.pc = "responded", !.response = errorHandler(e)]
                /\ UNCHANGED <<request, pc>>
           ELSE /\ http' = [http EXCEPT !.pc = "awaiting"]
                /\ request' = [http.body EXCEPT !.contextStrategy =
                                  IF @ = "" THEN "minimal" ELSE @]
                /\ pc' = "start"
    /\ UNCHANGED <<filteredMessages, adapter, retriesLeft, attempts, httpCalls,
                   delays, waitedMs, strategyApplied, adaptersCreated, sent,
                   history, result, error>>
    /\ UNCHANGED <<ctxVars, pvVars, nz, adp, svc, conc, adm>>

\* sendCompletion has settled: res.json(...) or next(error) -> errorHandler
ChatRespond ==
    /\ http.pc = "awaiting"
    /\ pc \in { "done", "failed" }
    /\ http' = [http EXCEPT !.pc = "responded",
                            !.response = IF pc = "done"
                                         THEN Json(200, "true", result, "", "", Absent)
                                         ELSE errorHandler(error)]
    /\ UNCHANGED <<chatVars, ctxVars, pvVars, nz, adp, svc, conc, adm>>

HttpNext ==
    ChatController \/ SendCompletion \/ UpstreamResponds \/ DelayElapsed \/ ChatRespond

SpecHttp == HttpInit /\ [][HttpNext]_vars

FieldCodes == { "MISSING_PROVIDER", "MISSING_API_KEY", "MISSING_MODEL",
                "MISSING_MESSAGES", "UNSUPPORTED_PROVIDER", "INVALID_MESSAGES" }

\* C16: every local validation failure of a chat-completion request is
\* answered with a 400 whose code names the offending field, never with a
\* 500, and never reaches an adapter.
C16_LocalFailureIs400 ==
    (http.pc = "responded" /\ InvalidRequest(http.body))
    => /\ http.response.status = 400
       /\ http.response.error.code \in FieldCodes
       /\ adaptersCreated = 0
       /\ httpCalls = 0

\* C17: when sendCompletion fails with a ProviderError of status s and code
\* c the endpoint answers with {success: false, error: {message, code,
\* statusCode}} carrying that status s and code c.
C17_ProviderErrorEnvelope ==
    (http.pc = "responded" /\ error.kind = "ProviderError")
    => /\ http.response.status = error.statusCode
       /\ http.response.success = "false"
       /\ http.response.error.code = error.code
       /\ http.response.error.message = error.message
       /\ http.response.error.statusCode = error.statusCode

(***************************************************************************)
(* Concurrent sendCompletion requests (specification SpecConc): each call  *)
(* of the async function has its own frame; the event loop interleaves the *)
(* frames at their awaits.                                                 *)
(***************************************************************************)
NumRequests == 2   \* sendCompletion calls in flight together

RequestIds == 1..NumRequests

ConcRequests ==
    { [provider |-> "openai", apiKey |-> << "k", "1" >>, model |-> << "m", "1" >>,
       messages |-> << Msg("user", "a") >>, contextStrategy |-> "minimal",
       temperature |-> Absent, maxTokens |-> Absent],
      [provider |-> "openai", apiKey |-> << "k", "2" >>, model |-> << "m", "2" >>,
       messages |-> << Msg("system", "s"), Msg("user", "a"), Msg("assistant", "b") >>,
       contextStrategy |-> "",
       temperature |-> 2, maxTokens |-> 100],
      [provider |-> "anthropic", apiKey |-> << "k", "1" >>, model |-> << "m", "1" >>,
       messages |-> << Msg("user", "a"), Msg("assistant", "b") >>,
       contextStrategy |-> "full",
       temperature |-> 0, maxTokens |-> 0],
      [provider |-> "openai", apiKey |-> << " " >>, model |-> << "m", "1" >>,
       messages |-> << Msg("user", "a") >>, contextStrategy |-> "minimal",
       temperature |-> Absent, maxTokens |-> Absent] }

ConcOutcomes ==
    { HttpOk(Body("m1", << Choice("assistant", "hello", "stop") >>, Usage(3, 2, 5))),
      HttpFail(503, "", ""),
      HttpFail(401, "invalid_api_key", "Incorrect API key") }

\* the locals of one sendCompletion call; `failures` counts its failed attempts
Frame(req) ==
    [pc |-> "start", request |-> req, filteredMessages |-> <<>>,
     adapter |-> NoAdapter, retriesLeft |-> MAX_RETRIES, failures |-> 0,
     sent |-> <<>>, out |-> NoResult]

\* an adapter kept in one place for all calls
closureAdapter_shared(frames, i) ==
    frames[CHOOSE j \in DOMAIN frames : frames[j].adapter # NoAdapter].adapter

\* the adapter captured by the closure handed to sendWithRetry
closureAdapter(frames, i) == frames[i].adapter

ConcInit ==
    /\ conc \in [pc : { "running" }, frames : [RequestIds -> { Frame(r) : r \in ConcRequests }]]
    /\ ChatUnused /\ CtxUnused /\ PvUnused
    /\ NzUnused /\ AdpUnused /\ SvcUnused /\ HttpUnused /\ AdmUnused

StrategyOf(req) == IF req.contextStrategy = "" THEN "minimal" ELSE req.contextStrategy

\* request i: sendCompletion up to its first upstream call
ConcSendCompletion(i) ==
    LET f == conc.frames[i]
        v == validateRequest(f.request)
        m == applyStrategy(f.request.messages, StrategyOf(f.request), NoCount)
        c == createAdapter(f.request.provider, f.request.apiKey)
    IN  /\ f.pc = "start"
        /\ IF v # NoError
           THEN conc' = [conc EXCEPT !.frames[i].pc = "failed",
                                     !.frames[i].out = Thrown(v)]
           ELSE IF c.kind = "throw"
           THEN conc' = [conc EXCEPT !.frames[i].pc = "failed",
                                     !.frames[i].filteredMessages = m,
                                     !.frames[i].out = c]
           ELSE LET created == [conc.frames EXCEPT ![i].adapter = c.value,
                                                   ![i].filteredMessages = m]
                IN  conc' = [conc EXCEPT !.frames =
                                [created EXCEPT
                                    ![i].pc = "calling",
                                    ![i].sent = Append(@,
                                        Invocation(closureAdapter(created, i),
                                                   f.request, m))]]
        /\ UNCHANGED <<chatVars, ctxVars, pvVars, nz, adp, svc, http, adm>>

\* request i: its pending upstream call settles
ConcUpstreamResponds(i) ==
    LET f == conc.frames[i]
    IN  /\ f.pc = "calling"
        /\ \E o \in ConcOutcomes :
              LET r == sendChatCompletion(closureAdapter(conc.frames, i), o)
              IN  IF r.kind = "return"
                  THEN conc' = [conc EXCEPT !.frames[i].pc = "done",
                                            !.frames[i].out = r]
                  ELSE IF sendWithRetry(r.value, f.retriesLeft) = "throw"
                  THEN conc' = [conc EXCEPT !.frames[i].pc = "failed",
                                            !.frames[i].failures = @ + 1,
                                            !.frames[i].out = r]
                  ELSE conc' = [conc EXCEPT !.frames[i].pc = "delaying",
                                            !.frames[i].failures = @ + 1]
        /\ UNCHANGED <<chatVars, ctxVars, pvVars, nz, adp, svc, http, adm>>

\* request i: its delay elapses and sendWithRetry(fn, retriesLeft - 1) calls fn
ConcDelayElapsed(i) ==
    LET f == conc.frames[i]
    IN  /\ f.pc = "delaying"
        /\ conc' = [conc EXCEPT
                      !.frames[i].pc = "calling",
                      !.frames[i].retriesLeft = @ - 1,
                      !.frames[i].sent = Append(@,
                          Invocation(closureAdapter(conc.frames, i), f.request,
                                     f.filteredMessages))]
        /\ UNCHANGED <<chatVars, ctxVars, pvVars, nz, adp, svc, http, adm>>

ConcNext ==
    \E i \in RequestIds :
       ConcSendCompletion(i) \/ ConcUpstreamResponds(i) \/ ConcDelayElapsed(i)

SpecConc == ConcInit /\ [][ConcNext]_vars

OwnInvocation(f, inv) ==
    /\ inv.provider = f.request.provider
    /\ inv.apiKey = f.request.apiKey
    /\ inv.model = f.request.model
    /\ inv.messages = applyStrategy(f.request.messages, StrategyOf(f.request), NoCount)

\* C15: in every interleaving of concurrent sendCompletion requests each
\* request's adapter and retry counter are its own: its retry budget is
\* consumed by its own failures only, and each of its upstream calls carries
\* its own key, model and messages.
C15_RequestsAreIsolated ==
    \A i \in RequestIds :
       LET f == conc.frames[i]
       IN  /\ f.adapter # NoAdapter
              => (f.adapter.provider = f.request.provider
                  /\ f.adapter.apiKey = f.request.apiKey)
           /\ \A k \in 1..Len(f.sent) : OwnInvocation(f, f.sent[k])
           /\ f.pc = "calling"  => f.retriesLeft = MAX_RETRIES - f.failures
           /\ f.pc = "delaying" => f.retriesLeft = MAX_RETRIES - f.failures + 1
           /\ Len(f.sent) <= MAX_RETRIES + 1
           /\ f.pc = "done" => (f.out.kind = "return"
                                /\ f.out.value.provider = f.request.provider)

C15_Witness ==
    /\ conc.frames[1].pc = "calling" /\ conc.frames[2].pc = "delaying"
    /\ conc.frames[1].request.apiKey # conc.frames[2].request.apiKey
    /\ conc.frames[1].retriesLeft = 2 /\ conc.frames[1].failures = 1
    /\ conc.frames[2].retriesLeft = 1 /\ conc.frames[2].failures = 3
    /\ Len(conc.frames[1].sent) = 2 /\ Len(conc.frames[2].sent) = 3

(***************************************************************************)
(* Admin login lockout: Admin model methods and adminLogin                 *)
(* (specification SpecAdmin: logins made one after the other).             *)
(* Dates are ticks of a clock; Hour ticks make one hour.                   *)
(***************************************************************************)
Hour        == 2   \* clock ticks per hour
MaxTime     == 4   \* the clock runs from 0 to MaxTime
NumSessions == 2   \* adminLogin calls that may be open

LOCK_AFTER  == 5   \* "Lock account after 5 failed attempts"
NoDate      == -1  \* lockUntil: null
KeepDate    == -2  \* an update that leaves lockUntil alone

AdminDoc(loginAttempts, lockUntil, status, lastLogin) ==
    [loginAttempts |-> loginAttempts, lockUntil |-> lockUntil, status |-> status,
     lastLogin |-> lastLogin]

isLocked(doc, now) == doc.lockUntil # NoDate /\ doc.lockUntil > now

Inc(lockUntil) == [op |-> "inc", loginAttempts |-> 1, lockUntil |-> lockUntil]
Set(loginAttempts, lockUntil) ==
    [op |-> "set", loginAttempts |-> loginAttempts, lockUntil |-> lockUntil]
NoUpdate == [op |-> "none", loginAttempts |-> 0, lockUntil |-> KeepDate]

\* incrementLoginAttempts that locks one failure late
incrementLoginAttempts_oneLate(doc, now) ==
    IF doc.lockUntil # NoDate /\ doc.lockUntil < now
    THEN Set(1, NoDate)
    ELSE IF doc.loginAttempts >= LOCK_AFTER /\ ~isLocked(doc, now)
    THEN Inc(now + Hour)
    ELSE Inc(KeepDate)

\* the update incrementLoginAttempts sends, computed from the loaded document
incrementLoginAttempts(doc, now) ==
    IF doc.lockUntil # NoDate /\ doc.lockUntil < now
    THEN Set(1, NoDate)
    ELSE IF doc.loginAttempts + 1 >= LOCK_AFTER /\ ~isLocked(doc, now)
    THEN Inc(now + Hour)
    ELSE Inc(KeepDate)

resetLoginAttempts == Set(0, NoDate)

\* the stored document after the database has applied update u
updateOne(stored, u) ==
    [stored EXCEPT
       !.loginAttempts = IF u.op = "inc" THEN @ + u.loginAttempts ELSE u.loginAttempts,
       !.lockUntil     = IF u.lockUntil = KeepDate THEN @ ELSE u.lockUntil]

IdleSession ==
    [pc |-> "idle", pwOk |-> FALSE, doc |-> AdminDoc(0, NoDate, "active", NoDate),
     update |-> NoUpdate, at |-> NoDate, lockedWhenMade |-> FALSE]

NoLogin == [code |-> "", status |-> NoStatus, pwOk |-> FALSE, lockedWhenMade |-> FALSE]

SessionIds == 1..NumSessions

\* streak: failed password attempts on the account since the last successful
\* login and since a lock was last found expired; lastFailAt: date of the last
\* one; last: the login answered last
AdmInit ==
    /\ adm \in [pc : { "running" }, now : { 0 },
                db : { AdminDoc(0, NoDate, s, NoDate) : s \in { "active", "disabled" } },
                sess : { [s \in SessionIds |-> IdleSession] },
                streak : { 0 }, lastFailAt : { NoDate }, last : { NoLogin }]
    /\ ChatUnused /\ CtxUnused /\ PvUnused
    /\ NzUnused /\ AdpUnused /\ SvcUnused /\ HttpUnused /\ ConcUnused

LockExpired(doc, now) == doc.lockUntil # NoDate /\ doc.lockUntil <= now

StreakAfter(n, doc, now) == IF LockExpired(doc, now) THEN 0 ELSE n

\* the login of session s is answered
Answered(a, s, status, code) ==
    [a EXCEPT !.sess[s] = IdleSession,
              !.last = [code |-> code, status |-> status,
                        pwOk |-> a.sess[s].pwOk,
                        lockedWhenMade |-> a.sess[s].lockedWhenMade]]

OthersIdle(s) == \A t \in SessionIds : t # s => adm.sess[t].pc = "idle"

\* a lock found expired ends the streak
Settle(a) == [a EXCEPT !.streak = StreakAfter(@, a.db, a.now)]

\* findOne resolves, then isLocked() and the status check
LoginFind(s) ==
    /\ adm.sess[s].pc = "idle"
    /\ \E emailKnown \in BOOLEAN, pwOk \in BOOLEAN :
          LET doc == adm.db
              a1  == [adm EXCEPT !.sess[s] =
                        [IdleSession EXCEPT
                           !.pwOk = pwOk, !.doc = doc, !.at = adm.now,
                           !.lockedWhenMade = emailKnown /\ adm.db.lockUntil # NoDate
                                              /\ adm.now < adm.db.lockUntil]]
          IN  IF ~emailKnown
              THEN adm' = Settle(Answered(a1, s, 401, "INVALID_CREDENTIALS"))
              ELSE IF isLocked(doc, adm.now)
              THEN adm' = Settle(Answered(a1, s, 403, "ACCOUNT_LOCKED"))
              ELSE IF doc.status = "disabled"
              THEN adm' = Settle(Answered(a1, s, 403, "ACCOUNT_DISABLED"))
              ELSE adm' = Settle([a1 EXCEPT !.sess[s].pc = "comparing"])
    /\ UNCHANGED <<chatVars, ctxVars, pvVars, nz, adp, svc, http, conc>>

\* comparePassword resolves; incrementLoginAttempts / resetLoginAttempts run up
\* to their updateOne
LoginCompare(s) ==
    /\ adm.sess[s].pc = "comparing"
    /\ LET ss == adm.sess[s]
       IN  adm' = Settle(
              IF ss.pwOk
              THEN [adm EXCEPT !.sess[s].pc = "resetting",
                               !.sess[s].update = resetLoginAttempts,
                               !.sess[s].at = adm.now]
              ELSE [adm EXCEPT !.sess[s].pc = "incrementing",
                               !.sess[s].update = incrementLoginAttempts(ss.doc, adm.now),
                               !.sess[s].at = adm.now])
    /\ UNCHANGED <<chatVars, ctxVars, pvVars, nz, adp, svc, http, conc>>

\* the database applies the update; a failed login is answered, a successful
\* one sets lastLogin and calls save()
LoginWrite(s) ==
    /\ adm.sess[s].pc \in { "incrementing", "resetting" }
    /\ LET ss == adm.sess[s]
           a1 == [adm EXCEPT !.db = updateOne(@, ss.update)]
       IN  adm' = Settle(
              IF ss.pc = "incrementing"
              THEN Answered([a1 EXCEPT !.streak = @ + 1, !.lastFailAt = ss.at],
                            s, 401, "INVALID_CREDENTIALS")
              ELSE [a1 EXCEPT !.streak = 0,
                              !.sess[s].pc = "saving",
                              !.sess[s].at = adm.now])
    /\ UNCHANGED <<chatVars, ctxVars, pvVars, nz, adp, svc, http, conc>>

\* save() writes the modified path lastLogin; the tokens are signed and sent
LoginSave(s) ==
    /\ adm.sess[s].pc = "saving"
    /\ adm' = Settle(Answered([adm EXCEPT !.db.lastLogin = adm.sess[s].at],
                              s, 200, "OK"))
    /\ UNCHANGED <<chatVars, ctxVars, pvVars, nz, adp, svc, http, conc>>

Tick ==
    /\ adm.now < MaxTime
    /\ adm' = Settle([adm EXCEPT !.now = @ + 1])
    /\ UNCHANGED <<chatVars, ctxVars, pvVars, nz, adp, svc, http, conc>>

AdmNext ==
    \/ \E s \in SessionIds :
          /\ OthersIdle(s)
          /\ (LoginFind(s) \/ LoginCompare(s) \/ LoginWrite(s) \/ LoginSave(s))
    \/ Tick

SpecAdmin == AdmInit /\ [][AdmNext]_vars

AllIdle == \A s \in SessionIds : adm.sess[s].pc = "idle"

\* C20: after 5 consecutive failed password attempts (no successful login
\* and no lock expiry in between) the account is locked for 1 hour; every
\* adminLogin made before lockUntil passes is rejected with ACCOUNT_LOCKED
\* even when the password is correct; a successful login resets
\* loginAttempts to 0 and clears lockUntil.
C20_LockoutAfterFiveFailures ==
    /\ adm.streak >= LOCK_AFTER
       => /\ adm.db.lockUntil = adm.lastFailAt + Hour
          /\ adm.now < adm.db.lockUntil
    /\ adm.last.lockedWhenMade
       => adm.last.code = "ACCOUNT_LOCKED" /\ adm.last.status = 403
    /\ ((adm.last.code = "OK" /\ AllIdle) \/ \E s \in SessionIds : adm.sess[s].pc = "saving")
       => adm.db.loginAttempts = 0 /\ adm.db.lockUntil = NoDate

C20_Witness ==
    /\ adm.streak = LOCK_AFTER
    /\ adm.db.loginAttempts = LOCK_AFTER
    /\ adm.db.lockUntil = adm.lastFailAt + Hour
    /\ adm.now = adm.lastFailAt + 1
    /\ adm.last.code = "ACCOUNT_LOCKED"
    /\ adm.last.pwOk

(***************************************************************************)
(* What is sent upstream (specification Spec)                              *)
(***************************************************************************)
\* C21: for every request that passes validation, under every context
\* strategy and every provider, the message sequence sent upstream contains
\* at least one message.
C21_UpstreamRequestNotEmpty ==
    \A k \in 1..Len(sent) :
       /\ Len(sent[k].messages) >= 1
       /\ Len(sent[k].body.messages) >= 1

\* C22: exactly one fixed delay of 1000 ms occurs between each pair of
\* consecutive attempts: delays = attempts - 1, no delay precedes the first
\* attempt and none follows the final success or the final error.
C22_OneFixedDelayBetweenAttempts ==
    /\ attempts = 0 => (delays = 0 /\ waitedMs = 0)
    /\ (attempts >= 1 /\ pc \in { "calling", "done", "failed" })
       => (delays = attempts - 1 /\ waitedMs = 1000 * delays)
    /\ pc = "delaying"
       => (delays = attempts /\ waitedMs = 1000 * (delays - 1))

C22_Witness ==
    /\ pc = "failed"
    /\ attempts = 4
    /\ delays = 3
    /\ waitedMs = 3000

\* C26: for each of the four adapters, the message of every normalized
\* result has role 'assistant', including when the upstream response omits
\* the role of its first choice or candidate.
C26_RoleDefaultsToAssistant ==
    (nz.pc = "applied" /\ nz.out.kind = "return")
    => nz.out.value.message.role = "assistant"

(***************************************************************************)
(* Adapter methods on their own (specification SpecAdapter): the request   *)
(* body built by sendChatCompletion, and handleError                       *)
(***************************************************************************)
MaxAdpLen == 3   \* messages given to adapter.sendChatCompletion

AdpMsgPool == { Msg("system", "s1"), Msg("system", "s2"), Msg("user", "a"),
                Msg("assistant", "b") }
AdpOptions == { Absent, 0, 2 }

RawErrors ==
    { HttpFail(st, c, m) : st \in { 400, 401, 429, 500, 503 },
                           c \in { "", "rate_limit_exceeded" },
                           m \in { "", "Upstream says no" } }
    \cup { NetworkFail(m) : m \in { "timeout exceeded", "socket hang up" } }
    \cup { TypeError }

AdpCall(method, provider, messages, temperature, maxTokens, raw) ==
    [pc |-> "input", method |-> method, provider |-> provider,
     model |-> << "m", "1" >>, messages |-> messages,
     temperature |-> temperature, maxTokens |-> maxTokens, raw |-> raw,
     out |-> NoResult]

AdpInit ==
    /\ adp \in { AdpCall("requestBody", p, m, t, x, NoOutcome) :
                    p \in NzProviders, m \in SeqsUpTo(AdpMsgPool, MaxAdpLen),
                    t \in AdpOptions, x \in AdpOptions }
          \cup { AdpCall("handleError", p, <<>>, Absent, Absent, raw) :
                    p \in NzProviders, raw \in RawErrors }
    /\ ChatUnused /\ CtxUnused /\ PvUnused /\ NzUnused
    /\ SvcUnused /\ HttpUnused /\ ConcUnused /\ AdmUnused

\* sendChatCompletion builds the body it posts
BuildRequestBody ==
    /\ adp.pc = "input" /\ adp.method = "requestBody"
    /\ adp' = [adp EXCEPT !.pc = "applied",
                          !.out = Returned(requestBody(adp.provider, adp.model,
                                     adp.messages, adp.temperature, adp.maxTokens))]
    /\ UNCHANGED <<chatVars, ctxVars, pvVars, nz, svc, http, conc, adm>>

\* this.handleError(error): never returns
HandleError ==
    /\ adp.pc = "input" /\ adp.method = "handleError"
    /\ adp' = [adp EXCEPT !.pc = "applied",
                          !.out = Thrown(handleError(adp.provider, adp.raw))]
    /\ UNCHANGED <<chatVars, ctxVars, pvVars, nz, svc, http, conc, adm>>

AdpNext == BuildRequestBody \/ HandleError

SpecAdapter == AdpInit /\ [][AdpNext]_vars

Built(providerName) ==
    adp.pc = "applied" /\ adp.method = "requestBody" /\ adp.provider = providerName

NonSystem(messages) ==
    LET Keep(m) == m.role # "system" IN SelectSeq(messages, Keep)

\* C23: the body AnthropicAdapter posts has no system-role message in its
\* messages array, keeps the non-system messages in their order, and carries
\* the content of the first system message as the top-level system field,
\* which is absent when there is no system message.
C23_AnthropicSystemIsSeparate ==
    Built("anthropic")
    => LET body == adp.out.value
           msgs == adp.messages
       IN  /\ \A i \in 1..Len(body.messages) : body.messages[i].role # "system"
           /\ body.messages = NonSystem(msgs)
           /\ \/ /\ \A i \in 1..Len(msgs) : msgs[i].role # "system"
                 /\ body.system = NoSystem
              \/ \E i \in 1..Len(msgs) :
                    /\ msgs[i].role = "system"
                    /\ \A j \in 1..(i - 1) : msgs[j].role # "system"
                    /\ body.system = msgs[i].content

C23_Witness ==
    /\ Built("anthropic")
    /\ adp.messages = << Msg("user", "a"), Msg("system", "s2"), Msg("system", "s1") >>
    /\ adp.out.value.system = "s2"
    /\ adp.out.value.messages = << Msg("user", "a") >>

\* C24: the contents GoogleAdapter posts have exactly one entry per
\* non-system input message, in the original order, with role 'model' for an
\* assistant message and 'user' for a user message and the same text; system
\* messages are dropped and none of their content is sent.
C24_GeminiTranslation ==
    Built("google")
    => LET body == adp.out.value
           kept == NonSystem(adp.messages)
       IN  /\ Len(body.messages) = Len(kept)
           /\ \A i \in 1..Len(kept) :
                 /\ body.messages[i].content = kept[i].content
                 /\ kept[i].role = "assistant" => body.messages[i].role = "model"
                 /\ kept[i].role = "user" => body.messages[i].role = "user"
           /\ body.system = NoSystem
           /\ \A i \in 1..Len(body.messages) :
                 body.messages[i].content \notin { "s1", "s2" }

C24_Witness ==
    /\ Built("google")
    /\ adp.messages = << Msg("system", "s1"), Msg("user", "a"), Msg("assistant", "b") >>
    /\ adp.out.value.messages =
          << [role |-> "user", content |-> "a"], [role |-> "model", content |-> "b"] >>

\* C25: handleError throws a ProviderError tagged with the adapter's own
\* provider; statusCode is the upstream status when present and 500
\* otherwise; code and message are the upstream structured ones when
\* present, else 'PROVIDER_ERROR' and the raw error's message; it never
\* returns normally.
C25_HandleErrorShape ==
    (adp.pc = "applied" /\ adp.method = "handleError")
    => LET e == adp.out.value
           raw == adp.raw
       IN  /\ adp.out.kind = "throw"
           /\ e.kind = "ProviderError"
           /\ e.provider = adp.provider
           /\ e.statusCode = IF raw.kind = "status" THEN raw.status ELSE 500
           /\ e.code = IF raw.errCode # "" THEN raw.errCode ELSE "PROVIDER_ERROR"
           /\ raw.errMessage # "" => e.message = raw.errMessage
           /\ raw.errMessage = "" => e.message = raw.message

C25_Witness ==
    /\ adp.pc = "applied" /\ adp.method = "handleError"
    /\ adp.provider = "perplexity"
    /\ adp.raw.kind = "network"
    /\ adp.out.value.statusCode = 500
    /\ adp.out.value.code = "PROVIDER_ERROR"
    /\ adp.out.value.message = "timeout exceeded"


(***************************************************************************)
(* Requests with completion options (specification SpecOptions): the same  *)
(* service, started from well-formed requests that set temperature and     *)
(* maxTokens                                                               *)
(***************************************************************************)
\* {temperature, maxTokens} of a request: both omitted, both 0, 0.2 and 100
ChatOptions == { << Absent, Absent >>, << 0, 0 >>, << 2, 100 >> }
OptionRequests ==
    { [provider |-> p, apiKey |-> << "s", "k" >>, model |-> << "m", "1" >>,
       messages |-> m, contextStrategy |-> c,
       temperature |-> o[1], maxTokens |-> o[2]] :
         p \in NzProviders,
         m \in SeqsUpTo({ Msg("system", "s"), Msg("user", "a"), Msg("assistant", "b") },
                        MaxChatLen),
         c \in ChatStrategies, o \in ChatOptions }

InitOptions ==
    /\ request \in OptionRequests
    /\ pc = "start"
    /\ ChatIdle
    /\ CtxUnused /\ PvUnused
    /\ NzUnused /\ AdpUnused /\ SvcUnused /\ HttpUnused /\ ConcUnused /\ AdmUnused

SpecOptions == InitOptions /\ [][Next]_vars

\* C27: within one sendCompletion request the context strategy is applied
\* once and one adapter is constructed; every attempt, retries included,
\* goes through that adapter with the same model, the same filtered
\* messages and the same temperature and maxTokens as the first attempt;
\* the caller's request, its messages array included, is never modified.
C27_RetriesRepeatTheSameCall ==
    /\ [](/\ strategyApplied <= 1
          /\ adaptersCreated <= 1
          /\ attempts >= 1 => (strategyApplied = 1 /\ adaptersCreated = 1)
          /\ Len(sent) = attempts
          /\ \A k \in 1..Len(sent) :
                /\ sent[k] = sent[1]
                /\ sent[k].provider = adapter.provider
                /\ sent[k].apiKey = adapter.apiKey
                /\ sent[k].model = request.model
                /\ sent[k].messages = filteredMessages
                /\ sent[k].temperature = request.temperature
                /\ sent[k].maxTokens = request.maxTokens)
    /\ [][request' = request]_vars

C27_Witness ==
    /\ pc = "failed"
    /\ attempts = 4
    /\ Len(sent) = 4
    /\ request.temperature = 2
    /\ request.maxTokens = 100
    /\ Len(filteredMessages) < Len(request.messages)
    /\ sent[4].messages = filteredMessages


(***************************************************************************)
(* A 2xx answer that cannot be normalized (specification Spec)             *)
(***************************************************************************)
Unnormalizable(outcome) == outcome.kind = "ok" /\ Len(outcome.body.choices) = 0

\* C28: when an upstream chat call answers 2xx with a body that cannot be
\* normalized (empty choices / candidates / content), the adapter throws a
\* ProviderError with statusCode 500 and code 'PROVIDER_ERROR'; the
\* orchestrator retries it like any retryable failure, and surfaces it
\* only when it was the fourth attempt.
C28_UnnormalizableIsRetried ==
    \A k \in 1..Len(history) :
       Unnormalizable(history[k].outcome)
       => LET e == history[k].settled.value
          IN  /\ history[k].settled.kind = "throw"
              /\ e.kind = "ProviderError"
              /\ e.provider = adapter.provider
              /\ e.statusCode = 500
              /\ e.code = "PROVIDER_ERROR"
              /\ (k = Len(history) /\ k < MAX_RETRIES + 1)
                 => (pc \in { "delaying", "calling" } /\ error = NoError)
              /\ (k = Len(history) /\ k = MAX_RETRIES + 1)
                 => (pc = "failed" /\ error = e /\ attempts = MAX_RETRIES + 1)

C28_Witness ==
    /\ pc = "failed"
    /\ Len(history) = 4
    /\ \A k \in 1..4 : Unnormalizable(history[k].outcome)
    /\ httpCalls = 4
    /\ error.statusCode = 500
    /\ error.code = "PROVIDER_ERROR"


(***************************************************************************)
(* The validate endpoint (specification SpecService)                       *)
(***************************************************************************)
\* the validateProvider controller once the service has settled:
\* res.json({success: result.valid, data: result}), or next(error)
validateProvider_respond(r) ==
    IF r.kind = "return"
    THEN Json(200, IF r.value.valid THEN "true" ELSE "false", r.value, "", "", Absent)
    ELSE errorHandler(r.value)

ValidateSettled == svc.pc = "done" /\ svc.op = "validateProvider"

\* C29: validateProvider never throws. For an unsupported provider, a blank
\* key, or any error thrown by the adapter (5xx and network ProviderErrors
\* included) it returns valid = false with the error's message, so the
\* endpoint answers success = false for a transient upstream failure just
\* as it does for a rejected key.
C29_ValidateProviderNeverThrows ==
    ValidateSettled
    => LET res == validateProvider_respond(svc.out)
       IN  /\ svc.out.kind = "return"
           /\ (~isProviderSupported(svc.provider) \/ Blank(svc.apiKey))
              => (svc.out.value.valid = FALSE /\ svc.httpCalls = 0)
           /\ svc.adapterOut.kind = "throw"
              => /\ svc.out.value.valid = FALSE
                 /\ svc.out.value.message = svc.adapterOut.value.message
           /\ res.status = 200
           /\ res.success = (IF svc.out.value.valid THEN "true" ELSE "false")
           /\ svc.upstream.kind \in { "status", "network" } => res.success = "false"

C29_Witness ==
    /\ ValidateSettled
    /\ svc.upstream = HttpFail(503, "", "")
    /\ svc.adapterOut.kind = "throw"
    /\ svc.adapterOut.value.statusCode = 503
    /\ svc.out.kind = "return"
    /\ svc.out.value.valid = FALSE
    /\ validateProvider_respond(svc.out).success = "false"


(***************************************************************************)
(* Admin login lockout with overlapping requests (specification            *)
(* SpecAdminConc): the steps of adminLogin calls on one account interleave *)
(* at their awaits (findOne, comparePassword, updateOne, save).  The calls *)
(* overlap within one tick of the clock.                                   *)
(***************************************************************************)
AdmConcNext ==
    \E s \in SessionIds :
       LoginFind(s) \/ LoginCompare(s) \/ LoginWrite(s) \/ LoginSave(s)

SpecAdminConc == AdmInit /\ [][AdmConcNext]_vars

\* C30: for every interleaving of concurrent failed adminLogin requests on
\* one account, once 5 failed attempts are recorded the account is locked:
\* no state has loginAttempts >= 5 while lockUntil is unset.
C30_FiveRecordedFailuresLock ==
    adm.db.loginAttempts >= LOCK_AFTER => adm.db.lockUntil # NoDate

====
